---- MODULE Spec2Model ----
(***************************************************************************)
(* DataWise backend (src/backend/main.py): the upload handler upload_file  *)
(* with its nested helpers detect_data_type and find_column_with_keywords, *)
(* the sales/generic and education insight strategies, report assembly,    *)
(* and the retrieval handlers get_report and download_html.                *)
(*                                                                         *)
(* Text is a sequence of one-character strings, so that substring search,  *)
(* lower-casing and suffix tests are computed, not assumed.  A table cell  *)
(* is a tagged record (number, text, date-like text, missing).             *)
(***************************************************************************)
EXTENDS Integers, Sequences, FiniteSets, TLC

VARIABLES
    uploads,     \* the upload folder: file name -> [exists, data] (data: the chunks written)
    report,      \* uploads/report.html: [exists, title, insights]
    pc,          \* per request: the handler's position
    file,        \* per request: the UploadFile [filename, data]
    pos,         \* per request: chunks of file.data already read
    df,          \* per request: the DataFrame [columns, rows]
    data_type,   \* per request: result of detect_data_type
    detected,    \* per request: role -> column name or None
    insights,    \* per request: the insight list
    response,    \* per request: [status, insights] (status 0: not answered yet)
    retrieval,   \* the last answer of GET /report or GET /download-html
    nUploads,    \* upload requests received so far
    completed    \* uploads that have written the report so far

vars == << uploads, report, pc, file, pos, df, data_type, detected, insights,
           response, retrieval, nUploads, completed >>

\* the clients whose upload requests the server handles
Reqs == {"r1", "r2"}

(***************************************************************************)
(* Bounds                                                                  *)
(***************************************************************************)
\* upload requests received in one run
MaxUploads == 2
\* columns of the tables the detector and classifier are run on in DetectSpec
MaxCols == 2

(***************************************************************************)
(* Text                                                                    *)
(***************************************************************************)
\* COLUMNS["revenue"] = revenue, sales, total, amount, income, value
KW_revenue ==
    << <<"r", "e", "v", "e", "n", "u", "e">>,
       <<"s", "a", "l", "e", "s">>,
       <<"t", "o", "t", "a", "l">>,
       <<"a", "m", "o", "u", "n", "t">>,
       <<"i", "n", "c", "o", "m", "e">>,
       <<"v", "a", "l", "u", "e">> >>
\* COLUMNS["units_sold"] = units sold, quantity, qty, count, volume
KW_units_sold ==
    << <<"u", "n", "i", "t", "s", " ", "s", "o", "l", "d">>,
       <<"q", "u", "a", "n", "t", "i", "t", "y">>,
       <<"q", "t", "y">>,
       <<"c", "o", "u", "n", "t">>,
       <<"v", "o", "l", "u", "m", "e">> >>
\* COLUMNS["price"] = price, cost, rate, unit price
KW_price ==
    << <<"p", "r", "i", "c", "e">>,
       <<"c", "o", "s", "t">>,
       <<"r", "a", "t", "e">>,
       <<"u", "n", "i", "t", " ", "p", "r", "i", "c", "e">> >>
\* COLUMNS["product"] = product, item, supplement, name, title
KW_product ==
    << <<"p", "r", "o", "d", "u", "c", "t">>,
       <<"i", "t", "e", "m">>,
       <<"s", "u", "p", "p", "l", "e", "m", "e", "n", "t">>,
       <<"n", "a", "m", "e">>,
       <<"t", "i", "t", "l", "e">> >>
\* COLUMNS["category"] = category, type, kind, class
KW_category ==
    << <<"c", "a", "t", "e", "g", "o", "r", "y">>,
       <<"t", "y", "p", "e">>,
       <<"k", "i", "n", "d">>,
       <<"c", "l", "a", "s", "s">> >>
\* COLUMNS["region"] = region, location, country, city, market, area
KW_region ==
    << <<"r", "e", "g", "i", "o", "n">>,
       <<"l", "o", "c", "a", "t", "i", "o", "n">>,
       <<"c", "o", "u", "n", "t", "r", "y">>,
       <<"c", "i", "t", "y">>,
       <<"m", "a", "r", "k", "e", "t">>,
       <<"a", "r", "e", "a">> >>
\* COLUMNS["platform"] = platform, source, channel, website, store
KW_platform ==
    << <<"p", "l", "a", "t", "f", "o", "r", "m">>,
       <<"s", "o", "u", "r", "c", "e">>,
       <<"c", "h", "a", "n", "n", "e", "l">>,
       <<"w", "e", "b", "s", "i", "t", "e">>,
       <<"s", "t", "o", "r", "e">> >>
\* COLUMNS["date"] = date, order date, week, month, timestamp, time
KW_date ==
    << <<"d", "a", "t", "e">>,
       <<"o", "r", "d", "e", "r", " ", "d", "a", "t", "e">>,
       <<"w", "e", "e", "k">>,
       <<"m", "o", "n", "t", "h">>,
       <<"t", "i", "m", "e", "s", "t", "a", "m", "p">>,
       <<"t", "i", "m", "e">> >>
\* education keywords of detect_data_type
EDUCATION_KEYWORDS ==
    << <<"s", "c", "o", "r", "e">>,
       <<"g", "r", "a", "d", "e">>,
       <<"e", "x", "a", "m">>,
       <<"t", "e", "s", "t">>,
       <<"s", "t", "u", "d", "e", "n", "t">>,
       <<"s", "t", "u", "d", "y">>,
       <<"a", "b", "s", "e", "n", "c", "e">> >>
\* sales keywords of detect_data_type
SALES_KEYWORDS ==
    << <<"r", "e", "v", "e", "n", "u", "e">>,
       <<"s", "a", "l", "e", "s">>,
       <<"p", "r", "i", "c", "e">>,
       <<"p", "r", "o", "d", "u", "c", "t">>,
       <<"u", "n", "i", "t", "s">>,
       <<"o", "r", "d", "e", "r">>,
       <<"d", "a", "t", "e">> >>
\* the extensions upload_file accepts
ACCEPTED_EXTENSIONS ==
    << <<".", "c", "s", "v">>,
       <<".", "x", "l", "s", "x">>,
       <<".", "x", "l", "s">> >>
\* subject_cols of the education strategy
subject_cols ==
    << <<"m", "a", "t", "h", "_", "s", "c", "o", "r", "e">>,
       <<"h", "i", "s", "t", "o", "r", "y", "_", "s", "c", "o", "r", "e">>,
       <<"p", "h", "y", "s", "i", "c", "s", "_", "s", "c", "o", "r", "e">>,
       <<"c", "h", "e", "m", "i", "s", "t", "r", "y", "_", "s", "c", "o", "r", "e">>,
       <<"b", "i", "o", "l", "o", "g", "y", "_", "s", "c", "o", "r", "e">>,
       <<"e", "n", "g", "l", "i", "s", "h", "_", "s", "c", "o", "r", "e">>,
       <<"g", "e", "o", "g", "r", "a", "p", "h", "y", "_", "s", "c", "o", "r", "e">> >>
cRevenue == <<"R", "e", "v", "e", "n", "u", "e">>  \* "Revenue"
cSales == <<"T", "o", "t", "a", "l", " ", "S", "a", "l", "e", "s">>  \* "Total Sales"
cOrderDate == <<"O", "r", "d", "e", "r", " ", "D", "a", "t", "e">>  \* "Order Date"
cDate == <<"D", "a", "t", "e">>  \* "Date"
cProduct == <<"P", "r", "o", "d", "u", "c", "t">>  \* "Product"
cProductName == <<"P", "r", "o", "d", "u", "c", "t", " ", "N", "a", "m", "e">>  \* "Product Name"
cUnitPrice == <<"U", "n", "i", "t", " ", "P", "r", "i", "c", "e">>  \* "Unit Price"
cPrice == <<"P", "r", "i", "c", "e">>  \* "Price"
cQty == <<"Q", "t", "y">>  \* "Qty"
cQuantity == <<"Q", "u", "a", "n", "t", "i", "t", "y">>  \* "Quantity"
cRegion == <<"R", "e", "g", "i", "o", "n">>  \* "Region"
cChannel == <<"C", "h", "a", "n", "n", "e", "l">>  \* "Channel"
cPlatform == <<"P", "l", "a", "t", "f", "o", "r", "m">>  \* "Platform"
cCategory == <<"C", "a", "t", "e", "g", "o", "r", "y">>  \* "Category"
cNotes == <<"N", "o", "t", "e", "s">>  \* "Notes"
cUnnamed == <<"U", "n", "n", "a", "m", "e", "d", ":", " ", "0">>  \* "Unnamed: 0"
cDiscountRate == <<"D", "I", "S", "C", "O", "U", "N", "T", " ", "R", "A", "T", "E">>  \* "DISCOUNT RATE"
cDiscount == <<"D", "i", "s", "c", "o", "u", "n", "t">>  \* "Discount"
cMonth == <<"M", "o", "n", "t", "h">>  \* "Month"
cItem == <<"I", "t", "e", "m">>  \* "Item"
cX == <<"x">>  \* "x"
cY == <<"y">>  \* "y"
cMathScore == <<"m", "a", "t", "h", "_", "s", "c", "o", "r", "e">>  \* "math_score"
cHistoryScore == <<"h", "i", "s", "t", "o", "r", "y", "_", "s", "c", "o", "r", "e">>  \* "history_score"
cPhysicsScore == <<"p", "h", "y", "s", "i", "c", "s", "_", "s", "c", "o", "r", "e">>  \* "physics_score"
cChemistryScore == <<"c", "h", "e", "m", "i", "s", "t", "r", "y", "_", "s", "c", "o", "r", "e">>  \* "chemistry_score"
cGeographyScore == <<"g", "e", "o", "g", "r", "a", "p", "h", "y", "_", "s", "c", "o", "r", "e">>  \* "geography_score"
cEnglishScore == <<"e", "n", "g", "l", "i", "s", "h", "_", "s", "c", "o", "r", "e">>  \* "english_score"
cFirstName == <<"f", "i", "r", "s", "t", "_", "n", "a", "m", "e">>  \* "first_name"
cLastName == <<"l", "a", "s", "t", "_", "n", "a", "m", "e">>  \* "last_name"
cGender == <<"g", "e", "n", "d", "e", "r">>  \* "gender"
cStudyHours == <<"w", "e", "e", "k", "l", "y", "_", "s", "e", "l", "f", "_", "s", "t", "u", "d", "y", "_", "h", "o", "u", "r", "s">>  \* "weekly_self_study_hours"
cPartTimeJob == <<"p", "a", "r", "t", "_", "t", "i", "m", "e", "_", "j", "o", "b">>  \* "part_time_job"
cStudentGrade == <<"S", "t", "u", "d", "e", "n", "t", " ", "G", "r", "a", "d", "e">>  \* "Student Grade"
cExamDate == <<"e", "x", "a", "m", "_", "d", "a", "t", "e">>  \* "exam_date"
cTotalScore == <<"t", "o", "t", "a", "l", "_", "s", "c", "o", "r", "e">>  \* "total_score"
cAvgScore == <<"a", "v", "g", "_", "s", "c", "o", "r", "e">>  \* "avg_score"
cScoreStd == <<"s", "c", "o", "r", "e", "_", "s", "t", "d">>  \* "score_std"
cStemAvg == <<"s", "t", "e", "m", "_", "a", "v", "g">>  \* "stem_avg"
cHumAvg == <<"h", "u", "m", "_", "a", "v", "g">>  \* "hum_avg"
fnDataCsv == <<"d", "a", "t", "a", ".", "c", "s", "v">>  \* "data.csv"
fnNotesTxt == <<"n", "o", "t", "e", "s", ".", "t", "x", "t">>  \* "notes.txt"
fnBookXlsx == <<"b", "o", "o", "k", ".", "x", "l", "s", "x">>  \* "book.xlsx"
fnUpperCsv == <<"D", "A", "T", "A", ".", "C", "S", "V">>  \* "DATA.CSV"
fnOldXls == <<"o", "l", "d", ".", "x", "l", "s">>  \* "old.xls"
extCsv == <<".", "c", "s", "v">>  \* ".csv"
\* str.lower() on one character
LowerChar(c) ==
    CASE c = "A" -> "a"
      [] c = "B" -> "b"
      [] c = "C" -> "c"
      [] c = "D" -> "d"
      [] c = "E" -> "e"
      [] c = "F" -> "f"
      [] c = "G" -> "g"
      [] c = "H" -> "h"
      [] c = "I" -> "i"
      [] c = "J" -> "j"
      [] c = "K" -> "k"
      [] c = "L" -> "l"
      [] c = "M" -> "m"
      [] c = "N" -> "n"
      [] c = "O" -> "o"
      [] c = "P" -> "p"
      [] c = "Q" -> "q"
      [] c = "R" -> "r"
      [] c = "S" -> "s"
      [] c = "T" -> "t"
      [] c = "U" -> "u"
      [] c = "V" -> "v"
      [] c = "W" -> "w"
      [] c = "X" -> "x"
      [] c = "Y" -> "y"
      [] c = "Z" -> "z"
      [] OTHER -> c

\* str.lower()
Lower(s) == [i \in 1..Len(s) |-> LowerChar(s[i])]

\* Python's  sub in s  on strings
Contains(sub, s) ==
    \E i \in 0..(Len(s) - Len(sub)) : SubSeq(s, i + 1, i + Len(sub)) = sub

\* str.endswith(suffix)
EndsWith(s, suffix) ==
    /\ Len(suffix) <= Len(s)
    /\ SubSeq(s, Len(s) - Len(suffix) + 1, Len(s)) = suffix

\* " ".join(names)
RECURSIVE Join(_)
Join(names) ==
    IF names = << >> THEN << >>
    ELSE IF Len(names) = 1 THEN names[1]
    ELSE names[1] \o << " " >> \o Join(Tail(names))

\* Python's None (no column name is this value: names are sequences of characters)
None == << "<None>" >>

Roles == << "revenue", "units_sold", "price", "product", "category", "region",
            "platform", "date" >>

\* the dict COLUMNS
COLUMNS ==
    [ revenue |-> KW_revenue, units_sold |-> KW_units_sold, price |-> KW_price,
      product |-> KW_product, category |-> KW_category, region |-> KW_region,
      platform |-> KW_platform, date |-> KW_date ]

(***************************************************************************)
(* Data category classifier and column role detector                       *)
(***************************************************************************)
\* any(kw in text for kw in keywords)
AnyKeywordIn(keywords, text) ==
    \E k \in 1..Len(keywords) : Contains(keywords[k], text)

\* the two keyword families checked in the other order
SalesFirstDataType(columns) ==
    LET text == Lower(Join(columns)) IN
    IF AnyKeywordIn(SALES_KEYWORDS, text) THEN "sales"
    ELSE IF AnyKeywordIn(EDUCATION_KEYWORDS, text) THEN "education"
    ELSE "generic"

detect_data_type(columns) ==
    LET text == Lower(Join(columns)) IN
    IF AnyKeywordIn(EDUCATION_KEYWORDS, text) THEN "education"
    ELSE IF AnyKeywordIn(SALES_KEYWORDS, text) THEN "sales"
    ELSE "generic"

\* the inner loop  for kw in keywords: if kw.lower() in col_lower
RECURSIVE KeywordLoop(_, _)
KeywordLoop(col_lower, keywords) ==
    IF keywords = << >> THEN FALSE
    ELSE IF Contains(Lower(Head(keywords)), col_lower) THEN TRUE
    ELSE KeywordLoop(col_lower, Tail(keywords))

\* a keyword-major scan: the first keyword that occurs in any column decides
RECURSIVE FindKeywordMajor(_, _)
FindKeywordMajor(columns, keywords) ==
    IF keywords = << >> THEN None
    ELSE LET hits == {i \in 1..Len(columns) :
                         Contains(Lower(Head(keywords)), Lower(columns[i]))} IN
         IF hits # {} THEN columns[CHOOSE i \in hits : \A j \in hits : i <= j]
         ELSE FindKeywordMajor(columns, Tail(keywords))

\* the outer loop  for col in df.columns
RECURSIVE find_column_with_keywords(_, _)
find_column_with_keywords(columns, keywords) ==
    IF columns = << >> THEN None
    ELSE IF KeywordLoop(Lower(Head(columns)), keywords) THEN Head(columns)
    ELSE find_column_with_keywords(Tail(columns), keywords)

\* detected = {role: find_column_with_keywords(df, keywords)}
DetectAll(columns) ==
    [role \in {Roles[i] : i \in 1..Len(Roles)} |->
        find_column_with_keywords(columns, COLUMNS[role])]

(***************************************************************************)
(* Table cells and the pandas operations the handler uses                  *)
(***************************************************************************)
\* a numeric value n/q (q = 1 for every value read from a file; True is 1, False is 0)
Rat(n, q) == [k |-> "num", n |-> n, q |-> q, s |-> "", y |-> 0, m |-> 0]
Num(n) == Rat(n, 1)
\* a text value that is neither a number nor a date
Str(s) == [k |-> "str", n |-> 0, q |-> 1, s |-> s, y |-> 0, m |-> 0]
\* a date of year y, month m (as text before pd.to_datetime, a timestamp after)
Date(y, m) == [k |-> "date", n |-> 0, q |-> 1, s |-> "", y |-> y, m |-> m]
\* NaN / NaT / an empty field
NaN == [k |-> "na", n |-> 0, q |-> 1, s |-> "", y |-> 0, m |-> 0]

\* pd.notna(x)
PdNotNa(x) == x.k # "na"

\* the text values of the catalogue in Python's string order (sorting, as mode() does)
StrOrder == << "Amazon", "East", "Gadget", "Lee", "North", "South", "Walmart", "Widget",
               "abc", "ann", "bob", "female", "male", "soon", "xyz" >>
StrRank(s) == IF \E i \in 1..Len(StrOrder) : StrOrder[i] = s
              THEN CHOOSE i \in 1..Len(StrOrder) : StrOrder[i] = s
              ELSE 0

\* the sort order of the values of one column
CellLess(a, b) ==
    IF a.k # b.k THEN
        (a.k = "num" /\ b.k # "num") \/ (a.k = "date" /\ b.k = "str")
    ELSE CASE a.k = "num"  -> a.n * b.q < b.n * a.q
           [] a.k = "str"  -> StrRank(a.s) < StrRank(b.s)
           [] a.k = "date" -> a.y < b.y \/ (a.y = b.y /\ a.m < b.m)
           [] OTHER        -> FALSE

\* name in df.columns
HasCol(d, c) == \E i \in 1..Len(d.columns) : d.columns[i] = c
ColIndex(d, c) == CHOOSE i \in 1..Len(d.columns) : d.columns[i] = c
NRows(d) == Len(d.rows)
\* df[c]
Column(d, c) == [i \in 1..NRows(d) |-> d.rows[i][ColIndex(d, c)]]
\* df[c] = values  (replaces the column, or appends a new one)
SetColumn(d, c, values) ==
    IF HasCol(d, c)
    THEN [d EXCEPT !.rows = [i \in 1..NRows(d) |->
                                [d.rows[i] EXCEPT ![ColIndex(d, c)] = values[i]]]]
    ELSE [columns |-> Append(d.columns, c),
          rows |-> [i \in 1..NRows(d) |-> Append(d.rows[i], values[i])]]

\* the column holds numbers (int64/float64 dtype), not objects
IsNumeric(series) == \A i \in 1..Len(series) : series[i].k \in {"num", "na"}

\* pd.to_numeric(series, errors='coerce')
ToNumeric(series) ==
    [i \in 1..Len(series) |-> IF series[i].k = "num" THEN series[i] ELSE NaN]

\* pd.to_datetime(series, errors='coerce')
ToDatetime(series) ==
    [i \in 1..Len(series) |->
        CASE series[i].k = "date" -> series[i]
          [] series[i].k = "num"  -> Date(1970, 1)
          [] OTHER                -> NaN]

RECURSIVE SumOver(_, _)
SumOver(f, S) ==
    IF S = {} THEN 0
    ELSE LET x == CHOOSE x \in S : TRUE IN f[x] + SumOver(f, S \ {x})

\* the rows of a series that hold a number
Valid(series) == {i \in 1..Len(series) : series[i].k = "num"}
\* sum of the numbers of the rows in S
SumRows(series, S) == SumOver([i \in 1..Len(series) |-> series[i].n], S \cap Valid(series))

\* Series.sum() of a numeric series: NaN skipped, 0 when nothing is left
SeriesSum(series) == Num(SumRows(series, 1..Len(series)))

\* Series.mean() of a numeric series as <<sum, count>>; NaN when no value is valid
SeriesMean(series) ==
    IF Valid(series) = {} THEN << NaN >>
    ELSE << Num(SumRows(series, 1..Len(series))), Num(Cardinality(Valid(series))) >>

\* the distinct non-missing values of a series
Values(series) == {series[i] : i \in {j \in 1..Len(series) : series[j].k # "na"}}
CountOf(series, v) == Cardinality({i \in 1..Len(series) : series[i] = v})
\* value_counts().iloc[0]
TopCount(series) ==
    CHOOSE c \in 0..Len(series) :
        /\ \E v \in Values(series) : CountOf(series, v) = c
        /\ \A v \in Values(series) : CountOf(series, v) <= c
\* Series.mode(): the most frequent values, sorted; this is mode()[0]
Mode0(series) ==
    LET modes == {v \in Values(series) : CountOf(series, v) = TopCount(series)} IN
    CHOOSE v \in modes : \A w \in modes : w = v \/ CellLess(v, w)

\* df.groupby(key)[val].sum() as a function from the group keys to sums; rows whose
\* key is missing are dropped
GroupKeys(keys) == Values(keys)
GroupSum(keys, vals, g) == SumRows(vals, {i \in 1..Len(keys) : keys[i] = g})
\* Series.idxmax() of the group sums: the first key, in key order, of maximal sum
GroupIdxMax(keys, vals) ==
    LET best == {g \in GroupKeys(keys) :
                   \A h \in GroupKeys(keys) : GroupSum(keys, vals, h) <= GroupSum(keys, vals, g)}
    IN CHOOSE g \in best : \A h \in best : h = g \/ CellLess(g, h)

\* .dt.month: the month number (.dt.to_period("M") keeps year and month: the date cell itself)
ToMonth(series) ==
    [i \in 1..Len(series) |-> IF series[i].k = "date" THEN Num(series[i].m) ELSE NaN]

\* an insight statement: what it says (tag) and the values it shows
Stmt(tag, val) == [tag |-> tag, val |-> val]
\* the outcome of one guarded block: the statements it appends and the table it leaves
Outcome(ins, d) == [ins |-> ins, df |-> d]

(***************************************************************************)
(* Sales/generic strategy: one guarded block per metric                    *)
(***************************************************************************)
\* truth value of  if detected[role]:
Truthy(x) == x # None /\ x # << >>

\* thresholds of the strategy; a Discount column holds hundredths (0.2 is 20)
HighDiscount == 20
DiscountRecommend == 15
HolidayMonths == {11, 12, 1}
SummerMonths == {6, 7, 8}

\* Total Revenue
RevenueBlock(d, det) ==
    IF ~Truthy(det.revenue) THEN Outcome(<< >>, d)
    ELSE LET revenue_data == ToNumeric(Column(d, det.revenue))
             total_revenue == SeriesSum(revenue_data)
         IN IF PdNotNa(total_revenue)
            THEN Outcome(<< Stmt("TotalRevenue", << total_revenue >>) >>, d)
            ELSE Outcome(<< Stmt("RevenueWarning", << >>) >>, d)

\* Total Units Sold
UnitsBlock(d, det) ==
    IF ~Truthy(det.units_sold) THEN Outcome(<< >>, d)
    ELSE LET units_data == ToNumeric(Column(d, det.units_sold))
             total_units == SeriesSum(units_data)
         IN IF PdNotNa(total_units)
            THEN Outcome(<< Stmt("TotalUnits", << total_units >>) >>, d)
            ELSE Outcome(<< Stmt("UnitsWarning", << >>) >>, d)

\* Average Price
PriceBlock(d, det) ==
    IF ~Truthy(det.price) THEN Outcome(<< >>, d)
    ELSE LET price_data == ToNumeric(Column(d, det.price))
             avg_price == SeriesMean(price_data)
         IN IF PdNotNa(avg_price[1])
            THEN Outcome(<< Stmt("AveragePrice", avg_price) >>, d)
            ELSE Outcome(<< >>, d)

\* Top Product / Top Region / Top Platform: the mode of the raw column
TopBlock(d, col, tag) ==
    IF ~Truthy(col) THEN Outcome(<< >>, d)
    ELSE LET series == Column(d, col) IN
         IF Values(series) # {}
         THEN Outcome(<< Stmt(tag, << Mode0(series), Num(TopCount(series)) >>) >>, d)
         ELSE Outcome(<< >>, d)

\* Time Range & Seasonality
DateBlock(d, det) ==
    IF ~Truthy(det.date) THEN Outcome(<< >>, d)
    ELSE LET d1 == SetColumn(d, det.date, ToDatetime(Column(d, det.date)))
             dates == Column(d1, det.date)
             valid_dates == Values(dates)
             earliest == CHOOSE v \in valid_dates : \A w \in valid_dates : w = v \/ CellLess(v, w)
             latest == CHOOSE v \in valid_dates : \A w \in valid_dates : w = v \/ CellLess(w, v)
         IN IF valid_dates = {} THEN Outcome(<< >>, d1)
            ELSE LET range == << Stmt("TimeRange", << earliest, latest >>) >> IN
                 IF ~Truthy(det.revenue) THEN Outcome(range, d1)
                 ELSE LET d2 == SetColumn(d1, cMonth, dates)
                          revenue == Column(d2, det.revenue)
                      IN \* summing text per month and taking idxmax raises TypeError
                         IF ~IsNumeric(revenue)
                         THEN Outcome(range \o << Stmt("DateParsingError", << Str("TypeError") >>) >>, d2)
                         ELSE Outcome(range \o << Stmt("PeakSalesMonth",
                                          << GroupIdxMax(Column(d2, cMonth), revenue) >>) >>, d2)

\* Data Quality: missing cells of the table as the blocks before left it
QualityBlock(d) ==
    LET missing == Cardinality({ij \in (1..NRows(d)) \X (1..Len(d.columns)) :
                                   d.rows[ij[1]][ij[2]].k = "na"})
        total_cells == NRows(d) * Len(d.columns)
    IN IF missing = 0 THEN Outcome(<< Stmt("DataQualityClean", << >>) >>, d)
       ELSE Outcome(<< Stmt("DataQualityMissing", << Num(missing), Num(total_cells) >>) >>, d)

\* Holiday season peak: [raised, ins, df]; it runs unguarded inside the Smart block
Seasonality(d, det) ==
    IF ~(Truthy(det.date) /\ Truthy(det.revenue)) THEN [raised |-> "", ins |-> << >>, df |-> d]
    ELSE LET d1 == SetColumn(d, det.date, ToDatetime(Column(d, det.date)))
             d2 == SetColumn(d1, cMonth, ToMonth(Column(d1, det.date)))
             months == Column(d2, cMonth)
             revenue == Column(d2, det.revenue)
         IN IF GroupKeys(months) = {}
            THEN [raised |-> "ValueError", ins |-> << >>, df |-> d2]
            ELSE IF ~IsNumeric(revenue)
            THEN [raised |-> "TypeError", ins |-> << >>, df |-> d2]
            ELSE LET peak_month == GroupIdxMax(months, revenue).n IN
                 [raised |-> "", df |-> d2,
                  ins |-> IF peak_month \in HolidayMonths THEN << Stmt("HolidayPeak", << >>) >>
                          ELSE IF peak_month \in SummerMonths THEN << Stmt("SummerPeak", << >>) >>
                          ELSE << >>]

\* sign of  corr - 0.3  and  corr + 0.3  for Pearson's corr of the rows valid in both
\* series: "high" (corr > 0.3), "low" (corr < -0.3), "none" (between, or NaN)
CorrClass(xs, ys) ==
    LET S == Valid(xs) \cap Valid(ys)
        n == Cardinality(S)
        sx == SumOver([i \in 1..Len(xs) |-> xs[i].n], S)
        sy == SumOver([i \in 1..Len(ys) |-> ys[i].n], S)
        sxy == SumOver([i \in 1..Len(xs) |-> xs[i].n * ys[i].n], S)
        sxx == SumOver([i \in 1..Len(xs) |-> xs[i].n * xs[i].n], S)
        syy == SumOver([i \in 1..Len(ys) |-> ys[i].n * ys[i].n], S)
        cov == n * sxy - sx * sy
        vx == n * sxx - sx * sx
        vy == n * syy - sy * sy
    IN IF vx = 0 \/ vy = 0 THEN "none"
       ELSE IF cov > 0 /\ 100 * cov * cov > 9 * vx * vy THEN "high"
       ELSE IF cov < 0 /\ 100 * cov * cov > 9 * vx * vy THEN "low"
       ELSE "none"

\* Price vs. Demand (own try/except: pass)
PriceDemand(d, det) ==
    IF ~(Truthy(det.price) /\ Truthy(det.units_sold)) THEN << >>
    ELSE LET price == Column(d, det.price)
             units == ToNumeric(Column(d, det.units_sold))
         IN \* Series.corr of a text column raises; the except passes
            IF ~IsNumeric(price) THEN << >>
            ELSE CASE CorrClass(price, units) = "low"  -> << Stmt("PriceSensitivity", << >>) >>
                   [] CorrClass(price, units) = "high" -> << Stmt("PremiumEffect", << >>) >>
                   [] OTHER -> << >>

\* Platform Performance (own try/except: pass)
PlatformDominance(d, det) ==
    IF ~(Truthy(det.platform) /\ Truthy(det.revenue)) THEN << >>
    ELSE LET platforms == Column(d, det.platform)
             revenue == Column(d, det.revenue)
             groups == GroupKeys(platforms)
             total == SumRows(revenue, {i \in 1..Len(platforms) : platforms[i].k # "na"})
         IN \* no group: index[0] raises; text sums: the division raises; both pass
            IF groups = {} \/ ~IsNumeric(revenue) THEN << >>
            ELSE LET top_platform == CHOOSE g \in groups : \A h \in groups :
                                        GroupSum(platforms, revenue, h) <= GroupSum(platforms, revenue, g)
                     top == GroupSum(platforms, revenue, top_platform)
                 IN \* dominance = top / total * 100 > 50
                    IF (total > 0 /\ 2 * top > total) \/ (total < 0 /\ 2 * top < total)
                    THEN << Stmt("PlatformDominates", << top_platform, Num(top), Num(total) >>) >>
                    ELSE << >>

\* Smart Sales Intelligence: one try around the three flags
SmartBlock(d, det) ==
    LET season == Seasonality(d, det) IN
    IF season.raised # ""
    THEN Outcome(<< Stmt("SmartInsightsError", << Str(season.raised) >>) >>, season.df)
    ELSE Outcome(season.ins \o PriceDemand(season.df, det) \o PlatformDominance(season.df, det),
                 season.df)

\* Python's truth value of a cell value (if top_product:)
CellTruthy(v) == ~(v.k = "num" /\ v.n = 0)

\* Discount Impact Analysis, gated on a column named exactly "Discount"
DiscountBlock(d) ==
    IF ~HasCol(d, cDiscount) THEN Outcome(<< >>, d)
    ELSE LET discount == Column(d, cDiscount)
             revenue == Column(d, cRevenue)
             with == {i \in Valid(discount) : discount[i].n > 0}
             without == {i \in Valid(discount) : discount[i].n = 0}
             high_discount_sales == Cardinality({i \in Valid(discount) : discount[i].n > HighDiscount})
             found == << Stmt("AverageDiscount", SeriesMean(discount)),
                         Stmt("HighDiscountSales", << Num(high_discount_sales) >>) >>
         IN \* the mean of a text column raises; so does df[...]["Revenue"] without that column
            IF ~IsNumeric(discount)
            THEN Outcome(<< Stmt("DiscountError", << Str("TypeError") >>) >>, d)
            ELSE IF ~HasCol(d, cRevenue)
            THEN Outcome(<< Stmt("DiscountError", << Str("KeyError") >>) >>, d)
            \* a text Revenue column: its sums are text, and comparing them with the
            \* number 0 of an empty selection raises after the two statements
            ELSE IF ~IsNumeric(revenue)
            THEN Outcome(found \o << Stmt("DiscountError", << Str("TypeError") >>) >>, d)
            ELSE IF SumRows(revenue, with) > SumRows(revenue, without)
            THEN Outcome(found \o << Stmt("DiscountStrategy", << >>) >>, d)
            ELSE Outcome(found, d)

\* Business Recommendations: one try around the three recommendations
RecommendationsBlock(d, det) ==
    LET promote ==
            IF Truthy(det.product) /\ Values(Column(d, det.product)) # {}
               /\ CellTruthy(Mode0(Column(d, det.product)))
            THEN << Stmt("PromoteProduct", << Mode0(Column(d, det.product)) >>) >>
            ELSE << >>
        discount == Column(d, cDiscount)
        discountRaises == HasCol(d, cDiscount) /\ ~IsNumeric(discount)
        useDiscounts ==
            IF HasCol(d, cDiscount) /\ Valid(discount) # {}
               /\ SumRows(discount, Valid(discount)) > DiscountRecommend * Cardinality(Valid(discount))
            THEN << Stmt("UseDiscounts", << >>) >>
            ELSE << >>
        seasonal == Truthy(det.date) /\ Truthy(det.revenue)
        d1 == IF seasonal THEN SetColumn(d, det.date, ToDatetime(Column(d, det.date))) ELSE d
        d2 == IF seasonal THEN SetColumn(d1, cMonth, ToMonth(Column(d1, det.date))) ELSE d
        months == Column(d2, cMonth)
        \* groupby("Month")["Revenue"]: the literal column, not the detected one
        seasonRaises ==
            IF ~seasonal THEN ""
            ELSE IF ~HasCol(d2, cRevenue) THEN "KeyError"
            ELSE IF GroupKeys(months) = {} THEN "ValueError"
            ELSE IF ~IsNumeric(Column(d2, cRevenue)) THEN "TypeError"
            ELSE ""
        holiday ==
            IF seasonal /\ GroupIdxMax(months, Column(d2, cRevenue)).n \in HolidayMonths
            THEN << Stmt("PlanHoliday", << >>) >>
            ELSE << >>
    IN IF discountRaises
       THEN Outcome(<< Stmt("RecommendationsError", << Str("TypeError") >>) >>, d)
       ELSE IF seasonRaises # ""
       THEN Outcome(<< Stmt("RecommendationsError", << Str(seasonRaises) >>) >>, d2)
       ELSE LET recommendations == promote \o useDiscounts \o holiday IN
            IF recommendations # << >>
            THEN Outcome(<< Stmt("RecommendationsHeader", << >>) >> \o recommendations, d2)
            ELSE Outcome(<< >>, d2)

(***************************************************************************)
(* Education strategy                                                      *)
(***************************************************************************)
\* thresholds of the strategy
HighStudyHours == 20
LowStudyHours == 10
StudyLiftPercent == 10
TopStudyHours == 30
GenderScoreGap == 3
GenderStudyGap == 5

\* [c for c in names if c in df.columns]
RECURSIVE Present(_, _)
Present(d, names) ==
    IF names = << >> THEN << >>
    ELSE IF HasCol(d, Head(names)) THEN << Head(names) >> \o Present(d, Tail(names))
    ELSE Present(d, Tail(names))

\* highest.replace('_score', '').title()
SubjectTitle(c) ==
    LET titles == << "Math", "History", "Physics", "Chemistry", "Biology", "English", "Geography" >>
    IN titles[CHOOSE i \in 1..Len(subject_cols) : subject_cols[i] = c]

\* the columns among cs whose cell in row i is a number
RowValid(d, i, cs) == {j \in 1..Len(cs) : d.rows[i][ColIndex(d, cs[j])].k = "num"}
RowSum(d, i, cs) == SumOver([j \in 1..Len(cs) |-> d.rows[i][ColIndex(d, cs[j])].n], RowValid(d, i, cs))
RowSumSq(d, i, cs) ==
    SumOver([j \in 1..Len(cs) |-> d.rows[i][ColIndex(d, cs[j])].n * d.rows[i][ColIndex(d, cs[j])].n],
            RowValid(d, i, cs))
\* df[cs].mean(axis=1)
RowMeans(d, cs) ==
    [i \in 1..NRows(d) |->
        IF RowValid(d, i, cs) = {} THEN NaN
        ELSE Rat(RowSum(d, i, cs), Cardinality(RowValid(d, i, cs)))]
\* df[cs].std(axis=1), kept as the variance (ddof = 1), which orders rows as std does
RowStds(d, cs) ==
    [i \in 1..NRows(d) |->
        LET n == Cardinality(RowValid(d, i, cs)) IN
        IF n < 2 THEN NaN
        ELSE Rat(n * RowSumSq(d, i, cs) - RowSum(d, i, cs) * RowSum(d, i, cs), n * (n - 1))]

RLess(a, b) == a.n * b.q < b.n * a.q
\* Series.idxmax() / idxmin(): the first row of maximal / minimal value, NaN skipped
IdxMax(series) ==
    CHOOSE i \in Valid(series) :
        /\ \A j \in Valid(series) : ~RLess(series[i], series[j])
        /\ \A j \in Valid(series) : j < i => RLess(series[j], series[i])
IdxMin(series) ==
    CHOOSE i \in Valid(series) :
        /\ \A j \in Valid(series) : ~RLess(series[j], series[i])
        /\ \A j \in Valid(series) : j < i => RLess(series[i], series[j])

\* the mean of the rational values of the rows S of a series, as a cell
RECURSIVE RatSum(_, _)
RatSum(series, S) ==
    IF S = {} THEN Rat(0, 1)
    ELSE LET i == CHOOSE i \in S : TRUE
             rest == RatSum(series, S \ {i})
         IN Rat(series[i].n * rest.q + rest.n * series[i].q, series[i].q * rest.q)
MeanOf(series, S) ==
    LET V == S \cap Valid(series) IN
    IF V = {} THEN NaN
    ELSE LET t == RatSum(series, V) IN Rat(t.n, t.q * Cardinality(V))

\* f"{first_name} {last_name}" of a row
DisplayName(d, i) == << d.rows[i][ColIndex(d, cFirstName)], d.rows[i][ColIndex(d, cLastName)] >>

\* the performance analysis, one try around its five statements: the statements
\* appended before a failure stay, then the error statement follows
PerformanceBlock(d) ==
    LET valid_subjects == Present(d, subject_cols) IN
    IF valid_subjects = << >> THEN Outcome(<< >>, d)
    ELSE
    LET d1 == SetColumn(d, cTotalScore, [i \in 1..NRows(d) |-> Num(RowSum(d, i, valid_subjects))])
        d2 == SetColumn(d1, cAvgScore, RowMeans(d, valid_subjects))
        avg == Column(d2, cAvgScore)
        d3 == SetColumn(d2, cScoreStd, RowStds(d, valid_subjects))
        std == Column(d3, cScoreStd)
        names == HasCol(d, cFirstName) /\ HasCol(d, cLastName)
        failed(e) == << Stmt("PerformanceError", << Str(e) >>) >>
        top == << Stmt("TopPerformer", DisplayName(d, IdxMax(avg)) \o << avg[IdxMax(avg)] >>) >>
        math == Column(d, cMathScore)
        topMath ==
            IF HasCol(d, cMathScore)
            THEN << Stmt("TopMathScorer", DisplayName(d, IdxMax(math)) \o << math[IdxMax(math)] >>) >>
            ELSE << >>
        balanced == << Stmt("MostBalanced", DisplayName(d, IdxMin(std)) \o << avg[IdxMin(std)] >>) >>
        mean(c) == MeanOf(Column(d, c), 1..NRows(d))
        ranked == {j \in 1..Len(valid_subjects) : mean(valid_subjects[j]).k = "num"}
        \* sort_values(ascending=False): NaN means last, equal means in column order
        highest == IF ranked = {} THEN 1
                   ELSE CHOOSE j \in ranked :
                          /\ \A h \in ranked : ~RLess(mean(valid_subjects[j]), mean(valid_subjects[h]))
                          /\ \A h \in ranked : h < j => RLess(mean(valid_subjects[h]), mean(valid_subjects[j]))
        unranked == (1..Len(valid_subjects)) \ ranked
        lowest == IF unranked # {} THEN CHOOSE j \in unranked : \A h \in unranked : h <= j
                  ELSE CHOOSE j \in ranked :
                          /\ \A h \in ranked : ~RLess(mean(valid_subjects[h]), mean(valid_subjects[j]))
                          /\ \A h \in ranked : h > j => RLess(mean(valid_subjects[j]), mean(valid_subjects[h]))
        subjects == << Stmt("StrongestSubject", << Str(SubjectTitle(valid_subjects[highest])),
                                                   mean(valid_subjects[highest]) >>),
                       Stmt("WeakestSubject", << Str(SubjectTitle(valid_subjects[lowest])),
                                                 mean(valid_subjects[lowest]) >>) >>
    IN \* idxmax of an empty or all-NaN series, then the name columns
       IF Valid(avg) = {} THEN Outcome(failed("ValueError"), d2)
       ELSE IF ~names THEN Outcome(failed("KeyError"), d2)
       ELSE IF HasCol(d, cMathScore) /\ Valid(math) = {} THEN Outcome(top \o failed("ValueError"), d2)
       \* idxmin of an all-NaN score_std (a single subject) is NaN: df.loc raises
       ELSE IF Valid(std) = {} THEN Outcome(top \o topMath \o failed("KeyError"), d3)
       ELSE Outcome(top \o topMath \o balanced \o subjects, d3)

\* the rows whose cell in column c is the number / the text v
RowsWhere(d, c, v) == {i \in 1..NRows(d) : d.rows[i][ColIndex(d, c)] = v}

\* Study Habits vs Performance (except: pass)
StudyBlock(d) ==
    IF ~(HasCol(d, cStudyHours) /\ HasCol(d, cMathScore)) THEN Outcome(<< >>, d)
    ELSE LET hours == Column(d, cStudyHours)
             math == Column(d, cMathScore)
             high_study == {i \in Valid(hours) : hours[i].n > HighStudyHours}
             low_study == {i \in Valid(hours) : hours[i].n <= LowStudyHours}
             high_avg == MeanOf(math, high_study)
             low_avg == MeanOf(math, low_study)
         IN IF ~IsNumeric(hours) \/ ~IsNumeric(math) THEN Outcome(<< >>, d)
            ELSE IF high_study # {} /\ low_study # {} /\ PdNotNa(high_avg) /\ PdNotNa(low_avg)
                    /\ low_avg.n > 0
                    /\ 100 * (high_avg.n * low_avg.q - low_avg.n * high_avg.q)
                         > StudyLiftPercent * low_avg.n * high_avg.q
            THEN Outcome(<< Stmt("StudyLift", << high_avg, low_avg >>) >>, d)
            ELSE Outcome(<< >>, d)

\* Top performers' study hours (except: pass)
TopStudyBlock(d) ==
    IF ~(HasCol(d, cStudyHours) /\ HasCol(d, cAvgScore)) THEN Outcome(<< >>, d)
    ELSE LET hours == Column(d, cStudyHours)
             avg == Column(d, cAvgScore)
             n == NRows(d) \div 10
             \* df.nlargest(n, "avg_score")
             before(i) == {j \in Valid(avg) : RLess(avg[i], avg[j]) \/ (~RLess(avg[j], avg[i]) /\ j < i)}
             top_10_percent == {i \in Valid(avg) : Cardinality(before(i)) < n}
             avg_study_top == MeanOf(hours, top_10_percent)
         IN IF ~IsNumeric(hours) THEN Outcome(<< >>, d)
            ELSE IF PdNotNa(avg_study_top) /\ avg_study_top.n > TopStudyHours * avg_study_top.q
            THEN Outcome(<< Stmt("TopStudyHours", << avg_study_top >>) >>, d)
            ELSE Outcome(<< >>, d)

\* Part-time job impact (except: pass)
JobBlock(d) ==
    IF ~(HasCol(d, cPartTimeJob) /\ HasCol(d, cMathScore)) THEN Outcome(<< >>, d)
    ELSE LET math == Column(d, cMathScore)
             with_job == MeanOf(math, RowsWhere(d, cPartTimeJob, Num(1)))
             without_job == MeanOf(math, RowsWhere(d, cPartTimeJob, Num(0)))
         IN IF ~IsNumeric(math) THEN Outcome(<< >>, d)
            ELSE IF PdNotNa(with_job) /\ PdNotNa(without_job) /\ RLess(with_job, without_job)
            THEN Outcome(<< Stmt("JobPenalty", << without_job, with_job >>) >>, d)
            ELSE Outcome(<< >>, d)

\* a > b + gap, False when either is NaN
ExceedsBy(a, b, gap) ==
    PdNotNa(a) /\ PdNotNa(b) /\ a.n * b.q > (b.n + gap * b.q) * a.q

\* Gender & Performance Trends (except: pass)
GenderBlock(d) ==
    IF ~HasCol(d, cGender) THEN Outcome(<< >>, d)
    ELSE LET male == RowsWhere(d, cGender, Str("male"))
             female == RowsWhere(d, cGender, Str("female"))
             stem_cols == Present(d, << cMathScore, cPhysicsScore, cChemistryScore >>)
             hum_cols == Present(d, << cHistoryScore, cEnglishScore, cGeographyScore >>)
             d1 == IF stem_cols # << >> THEN SetColumn(d, cStemAvg, RowMeans(d, stem_cols)) ELSE d
             d2 == IF hum_cols # << >> THEN SetColumn(d1, cHumAvg, RowMeans(d, hum_cols)) ELSE d1
             male_stem == MeanOf(Column(d1, cStemAvg), male)
             female_stem == MeanOf(Column(d1, cStemAvg), female)
             male_hum == MeanOf(Column(d2, cHumAvg), male)
             female_hum == MeanOf(Column(d2, cHumAvg), female)
             stem == IF stem_cols = << >> THEN << >>
                     ELSE IF ExceedsBy(male_stem, female_stem, GenderScoreGap)
                     THEN << Stmt("StemBoys", << >>) >>
                     ELSE IF ExceedsBy(female_stem, male_stem, GenderScoreGap)
                     THEN << Stmt("StemGirls", << >>) >>
                     ELSE << >>
             hum == IF hum_cols = << >> THEN << >>
                    ELSE IF ExceedsBy(female_hum, male_hum, GenderScoreGap)
                    THEN << Stmt("HumanitiesGirls", << >>) >>
                    ELSE IF ExceedsBy(male_hum, female_hum, GenderScoreGap)
                    THEN << Stmt("HumanitiesBoys", << >>) >>
                    ELSE << >>
             hours == Column(d, cStudyHours)
             male_study == MeanOf(hours, male)
             female_study == MeanOf(hours, female)
             study == IF ~HasCol(d, cStudyHours) \/ ~IsNumeric(hours) THEN << >>
                      ELSE IF ExceedsBy(male_study, female_study, GenderStudyGap)
                      THEN << Stmt("StudyMore", << Str("boys") >>) >>
                      ELSE IF ExceedsBy(female_study, male_study, GenderStudyGap)
                      THEN << Stmt("StudyMore", << Str("girls") >>) >>
                      ELSE << >>
         IN Outcome(stem \o hum \o study, d2)

(***************************************************************************)
(* Uploaded files.  A file's content is a sequence of chunks (one read of  *)
(* the upload stream each): a header line, a data line, or bytes that are  *)
(* no table.                                                               *)
(***************************************************************************)
Header(fmt, names) == [kind |-> "header", fmt |-> fmt, names |-> names, cells |-> << >>]
Row(fmt, cells) == [kind |-> "row", fmt |-> fmt, names |-> << >>, cells |-> cells]
Junk == [kind |-> "junk", fmt |-> "bytes", names |-> << >>, cells |-> << >>]

tableSales ==
    << Header("csv", << cDate, cRegion, cRevenue >>),
       Row("csv", << Date(2024, 1), Str("North"), Num(100) >>),
       Row("csv", << Date(2024, 6), Str("South"), Num(50) >> ) >>
tableBadRevenue ==
    << Header("csv", << cProduct, cRevenue >>),
       Row("csv", << Str("Widget"), Str("abc") >>),
       Row("csv", << Str("Widget"), Str("xyz") >>) >>
tableBadDates ==
    << Header("csv", << cDate, cPrice, cQuantity, cRevenue, cPlatform >>),
       Row("csv", << Str("soon"), Num(10), Num(5), Num(100), Str("Amazon") >>),
       Row("csv", << Str("soon"), Num(20), Num(3), Num(80), Str("Amazon") >>),
       Row("csv", << Str("soon"), Num(30), Num(1), Num(20), Str("Walmart") >>) >>
tableYears ==
    << Header("csv", << cOrderDate, cSales, cProduct >>),
       Row("csv", << Date(2023, 1), Num(60), Str("Widget") >>),
       Row("csv", << Date(2023, 6), Num(100), Str("Gadget") >>),
       Row("csv", << Date(2024, 1), Num(60), Str("Widget") >>) >>
tableDiscount ==
    << Header("xlsx", << cProduct, cDiscount, cRevenue, cDate >>),
       Row("xlsx", << Str("Widget"), Num(0), Num(100), Date(2024, 11) >>),
       Row("xlsx", << Str("Widget"), Num(30), Num(200), Date(2024, 11) >>),
       Row("xlsx", << Str("Gadget"), Num(25), Num(50), Date(2024, 3) >>) >>
tableGeneric ==
    << Header("xlsx", << cItem, cQty, cChannel >>),
       Row("xlsx", << Str("Widget"), Num(2), Str("Amazon") >>),
       Row("xlsx", << Str("Gadget"), NaN, Str("East") >>) >>
tableStudents ==
    << Header("csv", << cFirstName, cLastName, cMathScore, cHistoryScore, cGender,
                        cStudyHours, cPartTimeJob, cExamDate >>),
       Row("csv", << Str("ann"), Str("Lee"), Num(90), Num(70), Str("female"), Num(25), Num(0), Date(2024, 5) >>),
       Row("csv", << Str("bob"), Str("Lee"), Num(60), Num(80), Str("male"), Num(8), Num(1), Date(2024, 5) >>) >>
tableScores ==
    << Header("csv", << cMathScore, cHistoryScore, cPrice >>),
       Row("csv", << Num(50), Num(60), Num(10) >>),
       Row("csv", << Num(70), Num(80), Num(10) >>) >>
tablePlain ==
    << Header("csv", << cX, cY >>),
       Row("csv", << Num(1) >>),
       Row("csv", << Num(2), Str("abc") >>) >>
tableHeaderOnly ==
    << Header("csv", << cRevenue, cProduct >>) >>

\* the uploads a client may send: [filename, data]
Catalogue ==
    { [filename |-> fnNotesTxt, data |-> tableSales],
      [filename |-> fnUpperCsv, data |-> tableHeaderOnly],
      [filename |-> fnDataCsv, data |-> << Junk >>],
      [filename |-> fnDataCsv, data |-> << >>],
      [filename |-> fnDataCsv, data |-> tableSales],
      [filename |-> fnDataCsv, data |-> tableBadRevenue],
      [filename |-> fnDataCsv, data |-> tableBadDates],
      [filename |-> fnDataCsv, data |-> tableYears],
      [filename |-> fnDataCsv, data |-> tableStudents],
      [filename |-> fnDataCsv, data |-> tableScores],
      [filename |-> fnDataCsv, data |-> tablePlain],
      [filename |-> fnBookXlsx, data |-> tableDiscount],
      [filename |-> fnOldXls, data |-> tableGeneric] }

FileNames == {f.filename : f \in Catalogue}

\* pd.read_csv / pd.read_excel of the stored bytes: [ok, df].  Empty content, bytes
\* that are no table, content of the other format, or a line with more fields than
\* the header make the reader raise; a short line is padded with NaN.
ReadTable(data, fmt) ==
    LET ncols == Len(data[1].names)
        well == /\ data # << >>
                /\ data[1].kind = "header"
                /\ \A i \in 1..Len(data) : data[i].fmt = fmt
                /\ \A i \in 2..Len(data) : data[i].kind = "row" /\ Len(data[i].cells) <= ncols
    IN IF ~well THEN [ok |-> FALSE, df |-> [columns |-> << >>, rows |-> << >>]]
       ELSE [ok |-> TRUE,
             df |-> [columns |-> data[1].names,
                     rows |-> [i \in 1..(Len(data) - 1) |->
                                 [j \in 1..ncols |->
                                     IF j <= Len(data[i + 1].cells) THEN data[i + 1].cells[j]
                                     ELSE NaN]]]]

\* if file.filename.endswith(".csv"): read_csv else: read_excel
ReadFrame(filename, data) ==
    IF EndsWith(filename, extCsv) THEN ReadTable(data, "csv") ELSE ReadTable(data, "xlsx")

\* the extension compared without regard to case
AcceptedAnyCase(filename) ==
    \E i \in 1..Len(ACCEPTED_EXTENSIONS) : EndsWith(Lower(filename), ACCEPTED_EXTENSIONS[i])

\* file.filename.endswith((".csv", ".xlsx", ".xls"))
AcceptedName(filename) ==
    \E i \in 1..Len(ACCEPTED_EXTENSIONS) : EndsWith(filename, ACCEPTED_EXTENSIONS[i])

(***************************************************************************)
(* The server's state                                                      *)
(***************************************************************************)
RoleSet == {Roles[i] : i \in 1..Len(Roles)}
NoFile == [filename |-> << >>, data |-> << >>]
NoFrame == [columns |-> << >>, rows |-> << >>]
NoDetected == [role \in RoleSet |-> None]
NoResponse == [status |-> 0, detail |-> << >>, insights |-> << >>]
NoReport == [exists |-> FALSE, title |-> << >>, insights |-> << >>]
NoRetrieval == [endpoint |-> "", status |-> 0, body |-> NoReport, filename |-> ""]

\* the metric blocks of the two strategies, in the order the handler runs them
SwappedSalesSteps ==
    << "revenue", "units", "price", "product", "region", "platform", "quality", "date",
       "smart", "discount", "recommendations" >>
SalesSteps ==
    << "revenue", "units", "price", "product", "region", "platform", "date", "quality",
       "smart", "discount", "recommendations" >>
EducationSteps == << "performance", "study", "top_study", "job", "gender" >>

\* the block after step s of a strategy; report assembly follows the last one
After(steps, s) ==
    LET i == CHOOSE i \in 1..Len(steps) : steps[i] = s IN
    IF i = Len(steps) THEN "render" ELSE steps[i + 1]

\* the outer  except Exception  of upload_file: whatever was raised inside,
\* an HTTPException included, is answered as 500 "Upload failed: <exception>"
UploadFailed(exc) ==
    [status |-> 500, detail |-> << "Upload failed" >> \o exc.detail, insights |-> << >>]
\* raise HTTPException(status_code, detail)
HTTPException(status, detail) == [status |-> status, detail |-> << detail >>]

Init ==
    /\ uploads = [n \in FileNames |-> [exists |-> FALSE, data |-> << >>]]
    /\ report = NoReport
    /\ pc = [r \in Reqs |-> "idle"]
    /\ file = [r \in Reqs |-> NoFile]
    /\ pos = [r \in Reqs |-> 0]
    /\ df = [r \in Reqs |-> NoFrame]
    /\ data_type = [r \in Reqs |-> ""]
    /\ detected = [r \in Reqs |-> NoDetected]
    /\ insights = [r \in Reqs |-> << >>]
    /\ response = [r \in Reqs |-> NoResponse]
    /\ retrieval = NoRetrieval
    /\ nUploads = 0
    /\ completed = 0

\* the request ends with answer a
Answer(r, a) ==
    /\ response' = [response EXCEPT ![r] = a]
    /\ pc' = [pc EXCEPT ![r] = "done"]

(***************************************************************************)
(* POST /upload                                                            *)
(***************************************************************************)
\* the request arrives; the extension check
Validate(r, f) ==
    /\ pc[r] = "idle"
    /\ nUploads < MaxUploads
    /\ nUploads' = nUploads + 1
    /\ file' = [file EXCEPT ![r] = f]
    /\ IF ~AcceptedName(f.filename)
       THEN Answer(r, [status |-> 400, detail |-> << "File must be a CSV or Excel file" >>,
                       insights |-> << >>])
       ELSE /\ pc' = [pc EXCEPT ![r] = "open"]
            /\ UNCHANGED response
    /\ UNCHANGED << uploads, report, pos, df, data_type, detected, insights, retrieval, completed >>

\* open(file_path, "wb"): the stored file is truncated, or the open fails
OpenFile(r) ==
    /\ pc[r] = "open"
    /\ \/ /\ uploads' = [uploads EXCEPT ![file[r].filename] = [exists |-> TRUE, data |-> << >>]]
          /\ pos' = [pos EXCEPT ![r] = 0]
          /\ pc' = [pc EXCEPT ![r] = "save"]
          /\ UNCHANGED response
       \/ /\ Answer(r, UploadFailed(HTTPException(500, "Failed to save file")))
          /\ UNCHANGED << uploads, pos >>
    /\ UNCHANGED << report, file, df, data_type, detected, insights, retrieval, nUploads, completed >>

\* a chunk written into the stored file at the handle's own offset
WriteAt(data, i, chunk) ==
    IF i <= Len(data) THEN [data EXCEPT ![i] = chunk] ELSE Append(data, chunk)

\* the chunks of a request as a file of its own that replaces the stored one
FlushReplacing(data, pending, i) == pending

\* open(file_path, "wb") gives a buffered writer: buffer.write(chunk) keeps the chunk
\* in memory, and an upload of the catalogue is smaller than the buffer, so its chunks
\* reach the stored file when the with block closes the handle: from the handle's
\* offset 0 on, over what is stored then, and without truncating it again
RECURSIVE Flush(_, _, _)
Flush(data, pending, i) ==
    IF i > Len(pending) THEN data
    ELSE Flush(WriteAt(data, i, pending[i]), pending, i + 1)

\* the chunks request r has read from its upload and written to its handle
Buffered(r) == SubSeq(file[r].data, 1, pos[r])

\* one turn of  while chunk := await file.read(1024): buffer.write(chunk) ; a failure
\* leaves the with block, which closes the handle
SaveChunk(r) ==
    /\ pc[r] = "save"
    /\ pos[r] < Len(file[r].data)
    /\ \/ /\ pos' = [pos EXCEPT ![r] = @ + 1]
          /\ UNCHANGED << uploads, pc, response >>
       \/ /\ uploads' = [uploads EXCEPT ![file[r].filename].data = Flush(@, Buffered(r), 1)]
          /\ Answer(r, UploadFailed(HTTPException(500, "Failed to save file")))
          /\ UNCHANGED pos
    /\ UNCHANGED << report, file, df, data_type, detected, insights, retrieval, nUploads, completed >>

\* the stream is exhausted: the handle is closed, which writes the buffered chunks,
\* and the stored file is read back into a DataFrame
ReadDataFrame(r) ==
    /\ pc[r] = "save"
    /\ pos[r] = Len(file[r].data)
    /\ uploads' = [uploads EXCEPT ![file[r].filename].data = Flush(@, Buffered(r), 1)]
    /\ LET res == ReadFrame(file[r].filename, uploads'[file[r].filename].data) IN
       IF res.ok
       THEN /\ df' = [df EXCEPT ![r] = res.df]
            /\ pc' = [pc EXCEPT ![r] = "detect"]
            /\ UNCHANGED response
       ELSE /\ Answer(r, UploadFailed(HTTPException(400, "Could not read file")))
            /\ UNCHANGED df
    /\ UNCHANGED << report, file, pos, data_type, detected, insights, retrieval,
                    nUploads, completed >>

\* detect_data_type, the role detection, insights = [], and the strategy dispatch
DetectRoles(r) ==
    /\ pc[r] = "detect"
    /\ data_type' = [data_type EXCEPT ![r] = detect_data_type(df[r].columns)]
    /\ detected' = [detected EXCEPT ![r] = DetectAll(df[r].columns)]
    /\ insights' = [insights EXCEPT ![r] = << >>]
    /\ pc' = [pc EXCEPT ![r] = IF data_type'[r] = "education" THEN EducationSteps[1]
                               ELSE SalesSteps[1]]
    /\ UNCHANGED << uploads, report, file, pos, df, response, retrieval, nUploads, completed >>

\* insights.append / insights.extend
AppendInsights(list, stmts) == list \o stmts

\* one guarded block of a strategy runs: its statements are appended
RunBlock(r, steps, s, out) ==
    /\ pc[r] = s
    /\ insights' = [insights EXCEPT ![r] = AppendInsights(@, out.ins)]
    /\ df' = [df EXCEPT ![r] = out.df]
    /\ pc' = [pc EXCEPT ![r] = After(steps, s)]
    /\ UNCHANGED << uploads, report, file, pos, data_type, detected, response, retrieval,
                    nUploads, completed >>

Performance(r) == RunBlock(r, EducationSteps, "performance", PerformanceBlock(df[r]))
Study(r) == RunBlock(r, EducationSteps, "study", StudyBlock(df[r]))
TopStudy(r) == RunBlock(r, EducationSteps, "top_study", TopStudyBlock(df[r]))
Job(r) == RunBlock(r, EducationSteps, "job", JobBlock(df[r]))
Gender(r) == RunBlock(r, EducationSteps, "gender", GenderBlock(df[r]))

Revenue(r) == RunBlock(r, SalesSteps, "revenue", RevenueBlock(df[r], detected[r]))
Units(r) == RunBlock(r, SalesSteps, "units", UnitsBlock(df[r], detected[r]))
Price(r) == RunBlock(r, SalesSteps, "price", PriceBlock(df[r], detected[r]))
Product(r) == RunBlock(r, SalesSteps, "product", TopBlock(df[r], detected[r].product, "TopProduct"))
Region(r) == RunBlock(r, SalesSteps, "region", TopBlock(df[r], detected[r].region, "TopRegion"))
Platform(r) == RunBlock(r, SalesSteps, "platform", TopBlock(df[r], detected[r].platform, "TopPlatform"))
TimeRange(r) == RunBlock(r, SalesSteps, "date", DateBlock(df[r], detected[r]))
Quality(r) == RunBlock(r, SalesSteps, "quality", QualityBlock(df[r]))
Smart(r) == RunBlock(r, SalesSteps, "smart", SmartBlock(df[r], detected[r]))
Discount(r) == RunBlock(r, SalesSteps, "discount", DiscountBlock(df[r]))
Recommendations(r) == RunBlock(r, SalesSteps, "recommendations", RecommendationsBlock(df[r], detected[r]))

\* a report whose insight list is spliced in back to front
ReversedReport(filename, list) ==
    [exists |-> TRUE, title |-> filename,
     insights |-> [i \in 1..Len(list) |-> list[Len(list) + 1 - i]]]

\* the report written to uploads/report.html: the profile with the insight list spliced in
RenderedReport(filename, list) == [exists |-> TRUE, title |-> filename, insights |-> list]

\* report assembly: the profiling collaborator renders or raises; a rendered report
\* overwrites the stored one and the answer carries the same insight list
Render(r) ==
    /\ pc[r] = "render"
    /\ \/ /\ report' = RenderedReport(file[r].filename, insights[r])
          /\ completed' = completed + 1
          /\ Answer(r, [status |-> 200, detail |-> << >>, insights |-> insights[r]])
       \/ /\ Answer(r, UploadFailed(HTTPException(500, "Report generation failed")))
          /\ UNCHANGED << report, completed >>
    /\ UNCHANGED << uploads, file, pos, df, data_type, detected, insights, retrieval, nUploads >>

\* the answer is sent and the handler's locals are gone
Respond(r) ==
    /\ pc[r] = "done"
    /\ pc' = [pc EXCEPT ![r] = "idle"]
    /\ file' = [file EXCEPT ![r] = NoFile]
    /\ pos' = [pos EXCEPT ![r] = 0]
    /\ df' = [df EXCEPT ![r] = NoFrame]
    /\ data_type' = [data_type EXCEPT ![r] = ""]
    /\ detected' = [detected EXCEPT ![r] = NoDetected]
    /\ insights' = [insights EXCEPT ![r] = << >>]
    /\ response' = [response EXCEPT ![r] = NoResponse]
    /\ UNCHANGED << uploads, report, retrieval, nUploads, completed >>

(***************************************************************************)
(* GET /report and GET /download-html                                      *)
(***************************************************************************)
\* the file served without the existence check: a missing file is a server error
ServeUnchecked(endpoint, filename) ==
    IF ~report.exists
    THEN [endpoint |-> endpoint, status |-> 500, body |-> NoReport, filename |-> ""]
    ELSE [endpoint |-> endpoint, status |-> 200, body |-> report, filename |-> filename]

\* os.path.exists(report_path), else 404
ServeReport(endpoint, filename) ==
    IF ~report.exists
    THEN [endpoint |-> endpoint, status |-> 404, body |-> NoReport, filename |-> ""]
    ELSE [endpoint |-> endpoint, status |-> 200, body |-> report, filename |-> filename]

get_report ==
    /\ retrieval' = ServeReport("report", "")
    /\ UNCHANGED << uploads, report, pc, file, pos, df, data_type, detected, insights,
                    response, nUploads, completed >>

download_html ==
    /\ retrieval' = ServeReport("download-html", "DataWise_Report.html")
    /\ UNCHANGED << uploads, report, pc, file, pos, df, data_type, detected, insights,
                    response, nUploads, completed >>

(***************************************************************************)
(* Specifications                                                          *)
(***************************************************************************)
\* no upload request is being handled
Quiet == \A r \in Reqs : pc[r] = "idle"

\* the client that sends its uploads one after the other (the single-request use
\* the design assumes)
SerialReqs == {"r1"}

\* uploads come one after the other; retrievals come at any time
Next ==
    \/ \E r \in SerialReqs, f \in Catalogue : Quiet /\ Validate(r, f)
    \/ \E r \in Reqs : OpenFile(r)
    \/ \E r \in Reqs : SaveChunk(r)
    \/ \E r \in Reqs : ReadDataFrame(r)
    \/ \E r \in Reqs : DetectRoles(r)
    \/ \E r \in Reqs : Performance(r)
    \/ \E r \in Reqs : Study(r)
    \/ \E r \in Reqs : TopStudy(r)
    \/ \E r \in Reqs : Job(r)
    \/ \E r \in Reqs : Gender(r)
    \/ \E r \in Reqs : Revenue(r)
    \/ \E r \in Reqs : Units(r)
    \/ \E r \in Reqs : Price(r)
    \/ \E r \in Reqs : Product(r)
    \/ \E r \in Reqs : Region(r)
    \/ \E r \in Reqs : Platform(r)
    \/ \E r \in Reqs : TimeRange(r)
    \/ \E r \in Reqs : Quality(r)
    \/ \E r \in Reqs : Smart(r)
    \/ \E r \in Reqs : Discount(r)
    \/ \E r \in Reqs : Recommendations(r)
    \/ \E r \in Reqs : Render(r)
    \/ \E r \in Reqs : Respond(r)
    \/ get_report
    \/ download_html

Spec == Init /\ [][Next]_vars

\* two clients whose uploads overlap: a handler runs while the other one waits at a
\* chunk read, both storing under the same file name
ConcCatalogue ==
    { [filename |-> fnDataCsv, data |-> tableSales],
      [filename |-> fnDataCsv, data |-> tableYears],
      [filename |-> fnDataCsv, data |-> tableScores] }

ConcNext ==
    \/ \E r \in Reqs, f \in ConcCatalogue : Validate(r, f)
    \/ \E r \in Reqs : OpenFile(r)
    \/ \E r \in Reqs : SaveChunk(r)
    \/ \E r \in Reqs : ReadDataFrame(r)
    \/ \E r \in Reqs : DetectRoles(r)
    \/ \E r \in Reqs : Performance(r)
    \/ \E r \in Reqs : Study(r)
    \/ \E r \in Reqs : TopStudy(r)
    \/ \E r \in Reqs : Job(r)
    \/ \E r \in Reqs : Gender(r)
    \/ \E r \in Reqs : Revenue(r)
    \/ \E r \in Reqs : Units(r)
    \/ \E r \in Reqs : Price(r)
    \/ \E r \in Reqs : Product(r)
    \/ \E r \in Reqs : Region(r)
    \/ \E r \in Reqs : Platform(r)
    \/ \E r \in Reqs : TimeRange(r)
    \/ \E r \in Reqs : Quality(r)
    \/ \E r \in Reqs : Smart(r)
    \/ \E r \in Reqs : Discount(r)
    \/ \E r \in Reqs : Recommendations(r)
    \/ \E r \in Reqs : Render(r)
    \/ \E r \in Reqs : Respond(r)

ConcSpec == Init /\ [][ConcNext]_vars

(***************************************************************************)
(* The classifier and the detector on their own: a header-only sheet with  *)
(* any columns of the pool (distinct, as read_csv makes them) has been     *)
(* read, and the handler classifies it and detects its roles.              *)
(***************************************************************************)
NamePool ==
    { cRevenue, cSales, cOrderDate, cProductName, cUnitPrice, cQty, cRegion, cChannel,
      cCategory, cNotes, cUnnamed, cDiscountRate, cMathScore, cStudentGrade, cMonth }

\* the lists of at most n distinct names of the pool
RECURSIVE ColumnLists(_)
ColumnLists(n) ==
    IF n = 0 THEN { << >> }
    ELSE LET shorter == ColumnLists(n - 1) IN
         shorter \cup {Append(l, c) : l \in shorter, c \in NamePool}

DetectInit ==
    \E columns \in {l \in ColumnLists(MaxCols) : \A i, j \in 1..Len(l) : l[i] = l[j] => i = j} :
        /\ uploads = [n \in FileNames |->
                         IF n = fnBookXlsx THEN [exists |-> TRUE, data |-> << Header("xlsx", columns) >>]
                         ELSE [exists |-> FALSE, data |-> << >>]]
        /\ report = NoReport
        /\ pc = [r \in Reqs |-> IF r \in SerialReqs THEN "detect" ELSE "idle"]
        /\ file = [r \in Reqs |-> IF r \in SerialReqs
                                  THEN [filename |-> fnBookXlsx, data |-> << Header("xlsx", columns) >>]
                                  ELSE NoFile]
        /\ pos = [r \in Reqs |-> IF r \in SerialReqs THEN 1 ELSE 0]
        /\ df = [r \in Reqs |-> IF r \in SerialReqs THEN [columns |-> columns, rows |-> << >>]
                                ELSE NoFrame]
        /\ data_type = [r \in Reqs |-> ""]
        /\ detected = [r \in Reqs |-> NoDetected]
        /\ insights = [r \in Reqs |-> << >>]
        /\ response = [r \in Reqs |-> NoResponse]
        /\ retrieval = NoRetrieval
        /\ nUploads = 1
        /\ completed = 0

DetectNext == \E r \in Reqs : DetectRoles(r)

DetectSpec == DetectInit /\ [][DetectNext]_vars

(***************************************************************************)
(* Properties                                                              *)
(***************************************************************************)
Tags(list) == {list[i].tag : i \in 1..Len(list)}
\* the handler of request r has finished and its answer is not yet sent
Done(r) == pc[r] = "done"
\* request r ran the sales/generic strategy to the end and was answered 200
SalesDone(r) == Done(r) /\ response[r].status = 200 /\ data_type[r] # "education"
\* every statement of stmts occurs in list
Includes(list, stmts) == \A i \in 1..Len(stmts) : \E j \in 1..Len(list) : list[j] = stmts[i]

\* C1: an upload with an accepted extension whose content cannot be parsed ends with
\* a client-error (4xx) answer, without insights and without a report written.
C1_UnreadableIsClientError ==
    \A r \in Reqs :
        ( /\ Done(r)
          /\ AcceptedName(file[r].filename)
          /\ response[r].detail # << >>
          /\ response[r].detail[Len(response[r].detail)] = "Could not read file" )
        => /\ response[r].status \in 400..499
           /\ response[r].insights = << >>

\* C2: on the sales/generic path, a detected revenue column none of whose values
\* survives numeric coercion gives the "could not calculate total revenue" warning
\* and no numeric Total Revenue statement.
C2_InvalidRevenueWarns ==
    \A r \in Reqs :
        ( /\ SalesDone(r)
          /\ Truthy(detected[r].revenue)
          /\ NRows(df[r]) > 0
          /\ Valid(ToNumeric(Column(df[r], detected[r].revenue))) = {} )
        => /\ "RevenueWarning" \in Tags(insights[r])
           /\ "TotalRevenue" \notin Tags(insights[r])

\* C3: every metric of the sales/generic path is guarded on its own: whatever an
\* earlier metric raised, the price-vs-demand flag, the platform dominance flag and
\* the discount statements are reported as their own computation gives them.
C3_MetricsIndependent ==
    \A r \in Reqs :
        SalesDone(r)
        => /\ Includes(insights[r], PriceDemand(df[r], detected[r]))
           /\ Includes(insights[r], PlatformDominance(df[r], detected[r]))
           /\ Includes(insights[r], DiscountBlock(df[r]).ins)

\* role detection has run for request r
Detected(r) == pc[r] \notin {"idle", "open", "save", "detect"} /\ data_type[r] # ""
\* the columns whose lower-cased name contains a keyword of the role
Matching(columns, role) ==
    {i \in 1..Len(columns) :
        \E k \in 1..Len(COLUMNS[role]) : Contains(COLUMNS[role][k], Lower(columns[i]))}

\* C4: for every role, the detected column is the first column in table order whose
\* lower-cased name contains a keyword of the role, and None exactly when no column
\* does (so no columns: every role None).
C4_FirstMatchWins ==
    \A r \in Reqs :
        Detected(r) =>
            \A role \in RoleSet :
                LET M == Matching(df[r].columns, role) IN
                IF M = {} THEN detected[r][role] = None
                ELSE /\ detected[r][role] # None
                     /\ \E i \in M : /\ detected[r][role] = df[r].columns[i]
                                     /\ \A j \in M : i <= j

\* two columns match one role and the first is taken, and one column holds two roles
C4_Witness ==
    \E r \in Reqs :
        /\ Detected(r)
        /\ Len(df[r].columns) = 2
        /\ \E role \in RoleSet :
              /\ Matching(df[r].columns, role) = {1, 2}
              /\ detected[r][role] = df[r].columns[1]
        /\ \E a, b \in RoleSet : a # b /\ detected[r][a] = detected[r][b] /\ detected[r][a] # None

\* the lower-cased, space-joined column names contain one of the keywords
TextHas(columns, keywords) ==
    \E k \in 1..Len(keywords) : Contains(keywords[k], Lower(Join(columns)))

\* C5: the category is education when an education keyword occurs in the joined
\* lower-cased column names (sales keywords or not), else sales when a sales keyword
\* occurs, else generic; the education strategy starts exactly for education and the
\* sales strategy for sales and generic.
C5_CategoryAndDispatch ==
    \A r \in Reqs :
        Detected(r) =>
            LET edu == TextHas(df[r].columns, EDUCATION_KEYWORDS)
                sal == TextHas(df[r].columns, SALES_KEYWORDS)
            IN /\ data_type[r] \in {"education", "sales", "generic"}
               /\ edu => data_type[r] = "education"
               /\ (~edu /\ sal) => data_type[r] = "sales"
               /\ (~edu /\ ~sal) => data_type[r] = "generic"
               /\ pc[r] = "performance" <=> data_type[r] = "education"
               /\ pc[r] = "revenue" <=> data_type[r] \in {"sales", "generic"}

\* a table with keywords of both families was classified as education
C5_Witness ==
    \E r \in Reqs :
        /\ Detected(r)
        /\ TextHas(df[r].columns, EDUCATION_KEYWORDS)
        /\ TextHas(df[r].columns, SALES_KEYWORDS)
        /\ data_type[r] = "education"
        /\ pc[r] = "performance"

\* C6: GET /report and GET /download-html answer 404, never a server error, as long
\* as no upload has completed report generation; after one has, both serve the
\* stored report.
C6_RetrievalNotFoundThenServed ==
    [][ retrieval' # retrieval =>
          /\ retrieval'.endpoint \in {"report", "download-html"}
          /\ completed = 0 => retrieval'.status = 404
          /\ completed > 0 => retrieval'.status = 200 /\ retrieval'.body = report ]_vars

\* a retrieval was answered 404 although an upload has been stored (none has yet
\* produced a report)
C6_Witness ==
    /\ retrieval.status = 404
    /\ retrieval.endpoint = "download-html"
    /\ completed = 0
    /\ \E n \in FileNames : uploads[n].exists
    /\ \E r \in Reqs : Done(r) /\ response[r].status = 500

\* request r's handler finishes in this step
Finishes(r) == pc[r] # "done" /\ pc'[r] = "done"

\* C7: with uploads one after the other, the one stored report changes only when an
\* upload succeeds, it is then the report of that upload with the insight list of
\* its answer in the same order, and a failing upload leaves it as it was.
C7_ReportIsLastSuccess ==
    [][ /\ \A r \in Reqs :
              Finishes(r) =>
                  IF response'[r].status = 200
                  THEN /\ report'.exists
                       /\ report'.title = file[r].filename
                       /\ report'.insights = response'[r].insights
                  ELSE report' = report
        /\ report' # report => \E r \in Reqs : Finishes(r) /\ response'[r].status = 200 ]_vars

\* a second successful upload has overwritten the report of the first
C7_Witness ==
    \E r \in Reqs :
        /\ Done(r)
        /\ response[r].status = 200
        /\ completed = 2
        /\ Len(report.insights) >= 2
        /\ report.insights = response[r].insights

\* the listed extensions that a file name ends in, compared letter for letter
ExtensionOf(filename) ==
    { ext \in { <<".", "c", "s", "v">>, <<".", "x", "l", "s", "x">>, <<".", "x", "l", "s">> } :
        /\ Len(filename) >= Len(ext)
        /\ SubSeq(filename, Len(filename) - Len(ext) + 1, Len(filename)) = ext }

\* C8: an upload whose name does not end in .csv, .xlsx or .xls is answered 400 at
\* once: nothing is stored, no detection or insight generation runs, and the stored
\* report stays as it was.
C8_RejectedExtension ==
    [][ \A r \in Reqs :
          (pc[r] = "idle" /\ pc'[r] # "idle" /\ ExtensionOf(file'[r].filename) = {}) =>
              /\ pc'[r] = "done"
              /\ response'[r].status = 400
              /\ uploads' = uploads
              /\ report' = report
              /\ df'[r] = NoFrame
              /\ data_type'[r] = ""
              /\ detected'[r] = NoDetected
              /\ insights'[r] = << >> ]_vars

\* an upload named DATA.CSV was rejected while an earlier report is stored
C8_Witness ==
    \E r \in Reqs :
        /\ Done(r)
        /\ file[r].filename = fnUpperCsv
        /\ response[r].status = 400
        /\ ~uploads[fnUpperCsv].exists
        /\ report.exists

\* the place of a statement in the fixed order of the sales/generic strategy
Rank(tag) ==
    CASE tag \in {"TotalRevenue", "RevenueWarning"} -> 1
      [] tag \in {"TotalUnits", "UnitsWarning"} -> 2
      [] tag = "AveragePrice" -> 3
      [] tag = "TopProduct" -> 4
      [] tag = "TopRegion" -> 5
      [] tag = "TopPlatform" -> 6
      [] tag = "TimeRange" -> 7
      [] tag \in {"PeakSalesMonth", "DateParsingError"} -> 8
      [] tag \in {"DataQualityClean", "DataQualityMissing"} -> 9
      [] tag \in {"HolidayPeak", "SummerPeak", "SmartInsightsError"} -> 10
      [] tag \in {"PriceSensitivity", "PremiumEffect"} -> 11
      [] tag = "PlatformDominates" -> 12
      [] tag = "AverageDiscount" -> 13
      [] tag = "HighDiscountSales" -> 14
      [] tag \in {"DiscountStrategy", "DiscountError"} -> 15
      [] tag \in {"RecommendationsHeader", "RecommendationsError"} -> 16
      [] tag = "PromoteProduct" -> 17
      [] tag = "UseDiscounts" -> 18
      [] tag = "PlanHoliday" -> 19
      [] OTHER -> 0
InOrder(list) == \A i, j \in 1..Len(list) : i < j => Rank(list[i].tag) < Rank(list[j].tag)
IsPrefix(a, b) == Len(a) <= Len(b) /\ SubSeq(b, 1, Len(a)) = a
Analysing(r) == pc[r] \in {SalesSteps[i] : i \in 1..Len(SalesSteps)}
                          \cup {EducationSteps[i] : i \in 1..Len(EducationSteps)} \cup {"render"}

\* C9: during one analysis the insight list only grows at its end, and on the
\* sales/generic path its statements stand in the fixed order of the metrics.
C9_AppendOnlyOrdered ==
    [][ \A r \in Reqs :
          Analysing(r) =>
              /\ IsPrefix(insights[r], insights'[r])
              /\ data_type[r] # "education" => InOrder(insights'[r]) ]_vars

\* a sales analysis ended with statements of at least ten different metrics
C9_Witness ==
    \E r \in Reqs :
        /\ SalesDone(r)
        /\ Len(insights[r]) >= 10
        /\ {"TotalRevenue", "TimeRange", "DataQualityClean", "AverageDiscount",
            "RecommendationsHeader"} \subseteq Tags(insights[r])

\* the value of the statement with the tag (the list holds one)
ValueOf(list, tag) == list[CHOOSE i \in 1..Len(list) : list[i].tag = tag].val
\* the parsed dates and the revenue-role values of request r's table
DatesOf(r) == Column(df[r], detected[r].date)
RevenueOf(r) == Column(df[r], detected[r].revenue)
\* summed revenue of a calendar month over all years
MonthSum(r, m) ==
    SumRows(RevenueOf(r), {i \in 1..NRows(df[r]) : DatesOf(r)[i].k = "date" /\ DatesOf(r)[i].m = m})
MonthsOf(r) == {d.m : d \in Values(DatesOf(r))}
PeakMonths(r) == {m \in MonthsOf(r) : \A n \in MonthsOf(r) : MonthSum(r, n) <= MonthSum(r, m)}
\* the sales strategy ran with a date role and a numeric revenue role on valid dates
Seasonal(r) ==
    /\ SalesDone(r)
    /\ Truthy(detected[r].date) /\ Truthy(detected[r].revenue)
    /\ detected[r].date # detected[r].revenue
    /\ IsNumeric(RevenueOf(r))
    /\ Values(DatesOf(r)) # {}

\* C10: the peak month is the calendar month, summed over all years present, of
\* maximal revenue: the Peak Sales Month statement names that month and the
\* holiday/summer seasonality flag is the one that month calls for, so the two agree.
C10_PeakMonthsAgree ==
    \A r \in Reqs :
        (Seasonal(r) /\ "PeakSalesMonth" \in Tags(insights[r])) =>
            LET p == ValueOf(insights[r], "PeakSalesMonth")[1] IN
            /\ p.m \in PeakMonths(r)
            /\ "HolidayPeak" \in Tags(insights[r]) <=> p.m \in HolidayMonths
            /\ "SummerPeak" \in Tags(insights[r]) <=> p.m \in SummerMonths

\* request r ran the education strategy to the end and was answered 200
EducationDone(r) == Done(r) /\ response[r].status = 200 /\ data_type[r] = "education"
\* the warning and error statements of the education strategy
EducationErrors == {"PerformanceError"}

\* C11: on the education path a missing column (first_name or last_name among them)
\* appends no warning or error statement, and the sub-analyses that do not read it,
\* the strongest and the weakest subject, are still reported.
C11_MissingColumnSkipsSilently ==
    \A r \in Reqs :
        ( /\ EducationDone(r)
          /\ Len(Present(df[r], subject_cols)) >= 2
          /\ \A i \in 1..Len(subject_cols) :
                HasCol(df[r], subject_cols[i]) => IsNumeric(Column(df[r], subject_cols[i]))
          /\ \/ ~HasCol(df[r], cFirstName) \/ ~HasCol(df[r], cLastName)
             \/ ~HasCol(df[r], cStudyHours) \/ ~HasCol(df[r], cPartTimeJob)
             \/ ~HasCol(df[r], cGender) )
        => /\ Tags(insights[r]) \cap EducationErrors = {}
           /\ {"StrongestSubject", "WeakestSubject"} \subseteq Tags(insights[r])

\* C13: on the sales/generic path a detected product role whose column has a most
\* frequent value puts the Business Recommendations header, followed by the Promote
\* recommendation for that value, into the insight sequence, whatever the revenue
\* column is called and whether or not the holiday recommendation can be computed.
C13_PromoteAlwaysRecommended ==
    \A r \in Reqs :
        ( /\ SalesDone(r)
          /\ Truthy(detected[r].product)
          /\ Values(Column(df[r], detected[r].product)) # {} )
        => \E i \in 1..(Len(insights[r]) - 1) :
              /\ insights[r][i].tag = "RecommendationsHeader"
              /\ insights[r][i + 1] =
                     Stmt("PromoteProduct", << Mode0(Column(df[r], detected[r].product)) >>)

\* request r closes its handle and parses the stored file in this step
Parses(r) == pc[r] = "save" /\ pc'[r] = "detect"

\* C12: overlapping uploads under one file name are not isolated. A request parses
\* the file stored under its name as it is when the request closes its handle: its
\* own chunks laid over whatever another request left there, so the table it
\* analyses can hold rows it did not send.
C12_ParsesSharedFile ==
    [][ \A r \in Reqs :
          Parses(r) =>
              LET own == file[r].data
                  before == uploads[file[r].filename].data
                  after == uploads'[file[r].filename].data
              IN /\ Len(after) = IF Len(before) > Len(own) THEN Len(before) ELSE Len(own)
                 /\ \A i \in 1..Len(after) :
                       after[i] = IF i <= Len(own) THEN own[i] ELSE before[i]
                 /\ df'[r] = ReadFrame(file[r].filename, after).df ]_vars

\* a request is answered 200 on a table with more rows than it uploaded, and the
\* stored report, under its file name, carries the insights of that answer
C12_Witness ==
    \E r \in Reqs :
        LET own == ReadFrame(file[r].filename, file[r].data) IN
        /\ Done(r)
        /\ response[r].status = 200
        /\ own.ok
        /\ NRows(df[r]) > NRows(own.df)
        /\ df[r].rows[NRows(df[r])] \notin {own.df.rows[i] : i \in 1..NRows(own.df)}
        /\ response[r].insights # << >>
        /\ report = RenderedReport(file[r].filename, response[r].insights)
====
